---- MODULE Spec2Model ----
(***************************************************************************)
(* dummyfs (src/dummyvfs.c): a synthetic filesystem exposing two counter   *)
(* files, /counter and /subdir/subcounter.  The model covers mounting      *)
(* (dfs_fill_super, dummyfs_create_files), opening (dfs_open) and the      *)
(* read/write protocol (dfs_read_file, dfs_write_file) of the counter      *)
(* files, with 32-bit counter cells and byte-exact text conversion.        *)
(***************************************************************************)
EXTENDS Integers, Sequences, FiniteSets, TLC

(* ------------------------------------------------------------------ *)
(* Bounds of the model                                                *)
(* ------------------------------------------------------------------ *)
MaxMounts == 2
MaxHandles == 2
\* operations in one run of the lifecycle and read specifications
MaxOps == 6
\* operations in one run of the write specification
MaxWriteOps == 5
\* operations on a cell the history keeps
LogDepth == 3
\* operations of a run with overlapping read calls
MaxConcOps == 7
\* operations of a run with reads delivered in chunks
MaxChunkOps == 7

(* ------------------------------------------------------------------ *)
(* Program constants                                                  *)
(* ------------------------------------------------------------------ *)
TMPSIZE == 20
EINVAL == 22
EFAULT == 14
ENOMEM == 12
Mode0755 == 493
Mode0644 == 420
\* atomic_t holds a C int: 32 bits, two's complement
MaxInt == 2147483647
MinInt == (-MaxInt) - 1
Limb == 65536

Mounts == 1..MaxMounts
Handles == 1..MaxHandles
CellNames == {"counter", "subcounter"}
FileNames == {"counter", "subcounter"}

Min(a, b) == IF a < b THEN a ELSE b

(* ------------------------------------------------------------------ *)
(* 32-bit arithmetic on the counter cells                             *)
(* ------------------------------------------------------------------ *)
\* atomic_inc: wraps from INT_MAX to INT_MIN
Inc32(v) == IF v = MaxInt THEN MinInt ELSE v + 1

\* "v -= 1" on an int; the kernel is built with -fno-strict-overflow, so
\* INT_MIN - 1 wraps to INT_MAX
Dec32(v) == IF v = MinInt THEN MaxInt ELSE v - 1

(* ------------------------------------------------------------------ *)
(* snprintf(tmp, TMPSIZE, "%d\n", v)                                  *)
(* ------------------------------------------------------------------ *)
DigitChars == <<"0", "1", "2", "3", "4", "5", "6", "7", "8", "9">>

RECURSIVE PosDigits(_)
PosDigits(n) ==
    IF n < 10 THEN <<DigitChars[n + 1]>>
    ELSE PosDigits(n \div 10) \o <<DigitChars[(n % 10) + 1]>>

\* digits of |v| for v < 0, computed without forming |v| (|INT_MIN| does
\* not fit an int)
RECURSIVE NegDigits(_)
NegDigits(v) ==
    LET d == (10 - (v % 10)) % 10
        rest == (v + d) \div 10
    IN IF rest = 0 THEN <<DigitChars[d + 1]>>
       ELSE NegDigits(rest) \o <<DigitChars[d + 1]>>

\* the text "%d\n" produces
FormatInt(v) ==
    (IF v < 0 THEN <<"-">> \o NegDigits(v) ELSE PosDigits(v)) \o <<"\n">>

\* (variant: the text is cut to half the buffer)
snprintf_half(size, v) ==
    LET full == FormatInt(v)
    IN [len |-> Len(full),
        buf |-> SubSeq(full, 1, Min((size \div 2) - 1, Len(full)))]

\* snprintf returns the length the full text needs and stores at most
\* size-1 characters of it
snprintf(size, v) ==
    LET full == FormatInt(v)
    IN [len |-> Len(full), buf |-> SubSeq(full, 1, Min(size - 1, Len(full)))]

(* ------------------------------------------------------------------ *)
(* simple_strtol(tmp, NULL, 10) followed by the conversion to int     *)
(* done by atomic_set                                                 *)
(* ------------------------------------------------------------------ *)
IsDigit(c) == \E i \in 1..10 : DigitChars[i] = c
DigitVal(c) == (CHOOSE i \in 1..10 : DigitChars[i] = c) - 1

\* the unsigned value of the leading digits, modulo 2^32, kept as two
\* 16-bit limbs (the 64-bit accumulator of the kernel wraps modulo 2^64,
\* and the store into the int keeps the low 32 bits)
RECURSIVE ParseDigits(_, _)
ParseDigits(s, acc) ==
    IF s = <<>> \/ ~IsDigit(Head(s)) THEN acc
    ELSE LET lo10 == acc.lo * 10 + DigitVal(Head(s))
             hi10 == acc.hi * 10 + (lo10 \div Limb)
         IN ParseDigits(Tail(s), [hi |-> hi10 % Limb, lo |-> lo10 % Limb])

Strtoul32(s) == ParseDigits(s, [hi |-> 0, lo |-> 0])

\* two's complement negation modulo 2^32
Neg32(u) ==
    IF u.lo = 0 THEN [hi |-> (Limb - u.hi) % Limb, lo |-> 0]
    ELSE [hi |-> (Limb - 1) - u.hi, lo |-> Limb - u.lo]

\* the int a 32-bit pattern denotes
ToInt32(u) ==
    IF u.hi >= Limb \div 2 THEN (u.hi - Limb) * Limb + u.lo
    ELSE u.hi * Limb + u.lo

simple_strtol(s) ==
    IF s # <<>> /\ Head(s) = "-" THEN ToInt32(Neg32(Strtoul32(Tail(s))))
    ELSE ToInt32(Strtoul32(s))

(* ------------------------------------------------------------------ *)
(* Inputs                                                             *)
(* ------------------------------------------------------------------ *)
\* the allocations of one mount that may fail (new_inode, d_make_root,
\* d_alloc_name); "none": every allocation succeeds
AllocSites == {"counter_dentry", "counter_inode", "subdir_dentry",
               "subdir_inode", "subcounter_dentry", "subcounter_inode",
               "root_inode", "root_dentry"}
AllocFailures == AllocSites \cup {"none"}
NoAllocFailure == {"none"}

Nines19 == <<"9", "9", "9", "9", "9", "9", "9", "9", "9", "9",
             "9", "9", "9", "9", "9", "9", "9", "9", "9">>
TextIntMax == <<"2", "1", "4", "7", "4", "8", "3", "6", "4", "7">>
TextIntMaxPlus1 == <<"2", "1", "4", "7", "4", "8", "3", "6", "4", "8">>

\* a read call's inputs: the requested length and whether the user buffer
\* is unmapped
RdIn(count, bad) == [count |-> count, bad |-> bad]
\* a write call's inputs: the bytes of the user buffer (their number is
\* the requested length) and whether the buffer is unmapped
WrIn(bytes, bad) == [bytes |-> bytes, bad |-> bad]

\* lifecycle runs: every allocation failure, whole-file reads, one write
LifeReads == {RdIn(TMPSIZE, FALSE)}
LifeWrites == {WrIn(<<"4", "2">>, FALSE)}

\* read runs: chunked and whole reads, a faulting read, a write that
\* brings the cell to INT_MAX
ReadReads == {RdIn(0, FALSE), RdIn(1, FALSE), RdIn(TMPSIZE, FALSE),
              RdIn(TMPSIZE, TRUE)}
ReadWrites == {WrIn(TextIntMax, FALSE)}

\* round-trip runs: texts of integers inside and outside the int range
TripReads == {RdIn(TMPSIZE, FALSE)}
TripWrites == {WrIn(<<"4", "2">>, FALSE), WrIn(<<"-", "7">>, FALSE),
               WrIn(TextIntMax, FALSE), WrIn(TextIntMaxPlus1, FALSE),
               WrIn(<<"-">> \o TextIntMaxPlus1, FALSE)}

\* write runs: lengths 0, 2, 3, 19 and 20, and a faulting buffer
WriteReads == {RdIn(1, FALSE), RdIn(TMPSIZE, FALSE)}

\* runs with reads delivered in chunks
ChunkReads == {RdIn(1, FALSE), RdIn(TMPSIZE, FALSE)}
ChunkWrites == {WrIn(<<"9">>, FALSE)}

\* runs with overlapping read calls
ConcReads == {RdIn(TMPSIZE, FALSE)}
ConcWrites == {WrIn(<<"4", "2">>, FALSE)}
WriteWrites == {WrIn(<<>>, FALSE), WrIn(<<"4", "2">>, FALSE),
                WrIn(<<"-", "7", "x">>, FALSE), WrIn(Nines19, FALSE),
                WrIn(Nines19 \o <<"9">>, FALSE), WrIn(<<"4", "2">>, TRUE),
                WrIn(<<>>, TRUE), WrIn(Nines19 \o <<"9">>, TRUE),
                WrIn(<<"x", "9">>, FALSE)}

(* ------------------------------------------------------------------ *)
(* State                                                              *)
(* ------------------------------------------------------------------ *)
VARIABLES
    cell,      \* the static atomic_t counter, subcounter
    sb,        \* per mount: the superblock state and its dentry tree
    handle,    \* open files: struct file (private_data, f_pos)
    touched,   \* history: files of a mount read or written since its mount
    res,       \* history: the last operation, its arguments and result
    log,       \* history: per cell, the last operations on that cell
    nops,      \* number of operations performed
    call,      \* per open file: the read call in flight, if any
    tally      \* history: per cell, the value last stored and the number
               \* of offset-0 read calls completed since

vars == <<cell, sb, handle, touched, res, log, nops, call, tally>>

NoRes == [op |-> "none", m |-> 0, f |-> "", h |-> 0, c |-> "", off |-> 0,
          cnt |-> 0, bad |-> FALSE, ret |-> 0, crash |-> FALSE,
          data |-> <<>>, v0 |-> 0, v1 |-> 0, fail |-> "none",
          first |-> FALSE]

NoSb == [state |-> "free", tree |-> {}]
NoHandle == [open |-> FALSE, m |-> 0, f |-> "", private_data |-> "",
             f_pos |-> 0]

\* no read call in flight; otherwise the local copy v taken by
\* atomic_read and the arguments of the call
NoCall == [pc |-> "idle", v |-> 0, count |-> 0, bad |-> FALSE]
NoTally == [base |-> 0, reads |-> 0]

AppendLog(l, r) ==
    LET l2 == Append(l, r)
    IN IF Len(l2) > LogDepth THEN Tail(l2) ELSE l2

(* ------------------------------------------------------------------ *)
(* Tree construction                                                  *)
(* ------------------------------------------------------------------ *)
\* the inode of one object
dummyfs_make_inode(kind, mode) == [kind |-> kind, mode |-> mode, i_private |-> ""]

\* (variant: both files bound to the same static)
CounterOfShared(name) == "counter"

\* the cell a counter file of the given name is bound to: both files are
\* bound to file-scope statics, whatever the superblock
CounterOf(name) == IF name = "counter" THEN "counter" ELSE "subcounter"

\* the set of nodes added, empty when an allocation
\* fails
dummyfs_create_file(parent, name, counter, fail) ==
    IF fail = name \o "_dentry" \/ fail = name \o "_inode" THEN {}
    ELSE {[name |-> name, parent |-> parent,
           inode |-> [dummyfs_make_inode("reg", Mode0644) EXCEPT !.i_private = counter]]}

\* (variant: the directory gets the mode of a regular file)
dummyfs_create_dir_0644(parent, name, fail) ==
    IF fail = name \o "_dentry" \/ fail = name \o "_inode" THEN {}
    ELSE {[name |-> name, parent |-> parent, inode |-> dummyfs_make_inode("dir", Mode0644)]}

\* the directory node added, none when an allocation fails
dummyfs_create_dir(parent, name, fail) ==
    IF fail = name \o "_dentry" \/ fail = name \o "_inode" THEN {}
    ELSE {[name |-> name, parent |-> parent, inode |-> dummyfs_make_inode("dir", Mode0755)]}

\* the nodes below the root; failures are not
\* reported to the caller
dummyfs_create_files(fail) ==
    LET subdir == dummyfs_create_dir("/", "subdir", fail)
    IN dummyfs_create_file("/", "counter", CounterOf("counter"), fail)
       \cup subdir
       \cup (IF subdir # {} THEN
                dummyfs_create_file("subdir", "subcounter", CounterOf("subcounter"), fail)
             ELSE {})

\* the cells after dummyfs_create_files: both atomic_set(.., 0)
CreateFilesCells(old) == [c \in CellNames |-> 0]

RootNode == [name |-> "/", parent |-> "", inode |-> dummyfs_make_inode("dir", Mode0755)]

\* the outcomes of one mount.  A failed root inode is
\* dereferenced by inode_init_owner before the NULL test (a kernel oops:
\* the mount never returns).  A failed d_make_root has already dropped the
\* inode, which the fail_iput path drops again: the call returns -ENOMEM
\* or crashes on the freed inode.
dfs_fill_super(fail) ==
    IF fail = "root_inode" THEN
        {[ret |-> 0, crash |-> TRUE, tree |-> {}, built |-> FALSE]}
    ELSE IF fail = "root_dentry" THEN
        {[ret |-> -ENOMEM, crash |-> FALSE, tree |-> {}, built |-> FALSE],
         [ret |-> 0, crash |-> TRUE, tree |-> {}, built |-> FALSE]}
    ELSE
        {[ret |-> 0, crash |-> FALSE,
          tree |-> {RootNode} \cup dummyfs_create_files(fail), built |-> TRUE]}

(* ------------------------------------------------------------------ *)
(* dfs_read_file                                                      *)
(* ------------------------------------------------------------------ *)
\* (variant: a continuation encodes the cell as it is now)
ReadValueNoDec(v, off) == v

\* the value encoded: the cell, or the cell minus one on a continuation
ReadValue(v, off) == IF off > 0 THEN Dec32(v) ELSE v

\* (variant: the read has no side effect)
ReadCellNoInc(v, off) == v

\* the cell after the call: incremented when the offset is zero
ReadCell(v, off) == IF off > 0 THEN v ELSE Inc32(v)

\* "if (*offset > len) return 0"
ReadPastEnd(off, len) == off > len

\* (variant: the request is cut one byte short of the end of the text)
ReadClampShort(count, off, len) ==
    IF count >= len - off THEN len - off - 1 ELSE count

\* "if (count > len - *offset) count = len - *offset"
ReadClamp(count, off, len) == IF count > len - off THEN len - off ELSE count

\* copy_to_user / copy_from_user fail on a bad user buffer, unless asked
\* to copy nothing
CopyFaults(bad, n) == bad /\ n > 0

\* (variant: the position is left where it was)
ReadAdvanceNone(off, n) == off

\* "*offset += count"
ReadAdvance(off, n) == off + n

\* (variant: the increment is a store of the local copy plus one)
IncTargetLocal(v, cur) == v

\* atomic_inc works on the counter in memory as it is when it executes,
\* not on the local copy v taken earlier by atomic_read
IncTarget(v, cur) == cur

\* the call, for a local copy v taken by atomic_read and a counter that
\* holds cur when the increment executes
dfs_read_steps(v, cur, off, count, bad) ==
    LET s == snprintf(TMPSIZE, ReadValue(v, off))
        n == ReadClamp(count, off, s.len)
        after == ReadCell(IncTarget(v, cur), off)
    IN IF ReadPastEnd(off, s.len) THEN
           [ret |-> 0, data |-> <<>>, cell |-> after, f_pos |-> off]
       ELSE IF CopyFaults(bad, n) THEN
           [ret |-> -EFAULT, data |-> <<>>, cell |-> after, f_pos |-> off]
       ELSE
           [ret |-> n, data |-> SubSeq(s.buf, off + 1, off + n),
            cell |-> after, f_pos |-> ReadAdvance(off, n)]

\* the call when nothing runs between its atomic_read and its atomic_inc
dfs_read_file(v, off, count, bad) == dfs_read_steps(v, v, off, count, bad)

(* ------------------------------------------------------------------ *)
(* dfs_write_file                                                     *)
(* ------------------------------------------------------------------ *)
\* (variant: only a negative offset is refused)
WriteBadOffsetNegOnly(off) == off < 0

\* "if (*offset != 0) return -EINVAL"
WriteBadOffset(off) == off # 0

\* (variant: a full buffer is accepted)
WriteTooLongOffByOne(count) == count > TMPSIZE

\* "if (count >= TMPSIZE) return -EINVAL"
WriteTooLong(count) == count >= TMPSIZE

\* (variant: the sign is not parsed)
WriteValueUnsigned(bytes) == ToInt32(Strtoul32(bytes))

\* (variant: an input with any character that is not a digit counts as 0)
WriteValueStrict(bytes) ==
    IF \A i \in 1..Len(bytes) : IsDigit(bytes[i])
    THEN simple_strtol(bytes) ELSE 0

\* the value stored by an accepted write
WriteValue(bytes) == simple_strtol(bytes)

dfs_write_file(v, off, bytes, bad) ==
    IF WriteBadOffset(off) THEN [ret |-> -EINVAL, cell |-> v]
    ELSE IF WriteTooLong(Len(bytes)) THEN [ret |-> -EINVAL, cell |-> v]
    ELSE IF CopyFaults(bad, Len(bytes)) THEN [ret |-> -EFAULT, cell |-> v]
    ELSE [ret |-> Len(bytes), cell |-> WriteValue(bytes)]

(* ------------------------------------------------------------------ *)
(* Initial state: the module is loaded, nothing is mounted            *)
(* ------------------------------------------------------------------ *)
Init ==
    /\ cell = [c \in CellNames |-> 0]
    /\ sb = [m \in Mounts |-> NoSb]
    /\ handle = [h \in Handles |-> NoHandle]
    /\ touched = [m \in Mounts |-> {}]
    /\ res = NoRes
    /\ log = [c \in CellNames |-> <<>>]
    /\ nops = 0
    /\ call = [h \in Handles |-> NoCall]
    /\ tally = [c \in CellNames |-> NoTally]

FreeMounts == {m \in Mounts : sb[m].state = "free"}
FreeHandles == {h \in Handles : ~handle[h].open}
Lowest(S) == CHOOSE x \in S : \A y \in S : x <= y

\* the dentry of a name in the tree of a mount
Lookup(m, name) == {n \in sb[m].tree : n.name = name}

(* ------------------------------------------------------------------ *)
(* Operations                                                         *)
(* ------------------------------------------------------------------ *)
\* mount -t dummyfs: mount_nodev gets a new superblock and calls
\* dfs_fill_super; `fail` is the allocation that fails, if any
Mount(budget, fail) ==
    /\ nops < budget
    /\ FreeMounts # {}
    /\ LET m == Lowest(FreeMounts) IN
       \E out \in dfs_fill_super(fail) :
          LET r == [NoRes EXCEPT !.op = "mount", !.m = m, !.fail = fail,
                                 !.ret = out.ret, !.crash = out.crash]
          IN /\ sb' = [sb EXCEPT ![m] =
                         IF out.crash THEN [state |-> "dead", tree |-> {}]
                         ELSE IF out.ret # 0 THEN NoSb
                         ELSE [state |-> "mounted", tree |-> out.tree]]
             /\ cell' = IF out.built THEN CreateFilesCells(cell) ELSE cell
             /\ log' = IF out.built
                       THEN [c \in CellNames |->
                               AppendLog(log[c], [NoRes EXCEPT !.op = "mount", !.c = c,
                                       !.v0 = cell[c],
                                       !.v1 = CreateFilesCells(cell)[c]])]
                       ELSE log
             /\ touched' = [touched EXCEPT ![m] = {}]
             /\ tally' = IF out.built
                         THEN [c \in CellNames |->
                                 [base |-> CreateFilesCells(cell)[c], reads |-> 0]]
                         ELSE tally
             /\ res' = r
    /\ nops' = nops + 1
    /\ UNCHANGED <<handle, call>>

\* umount: kill_litter_super releases the tree; the host refuses while
\* files of the mount are open.  The static counters keep their values.
Unmount(budget, m) ==
    /\ nops < budget
    /\ sb[m].state = "mounted"
    /\ \A h \in Handles : handle[h].open => handle[h].m # m
    /\ sb' = [sb EXCEPT ![m] = NoSb]
    /\ touched' = [touched EXCEPT ![m] = {}]
    /\ res' = [NoRes EXCEPT !.op = "unmount", !.m = m]
    /\ nops' = nops + 1
    /\ UNCHANGED <<cell, handle, log, call, tally>>

\* open of a regular file of a mount: dfs_open
dfs_open(inode) == inode.i_private

Open(budget, m, f) ==
    /\ nops < budget
    /\ sb[m].state = "mounted"
    /\ FreeHandles # {}
    /\ \E n \in Lookup(m, f) :
          /\ n.inode.kind = "reg"
          /\ LET h == Lowest(FreeHandles) IN
             /\ handle' = [handle EXCEPT ![h] =
                             [open |-> TRUE, m |-> m, f |-> f,
                              private_data |-> dfs_open(n.inode), f_pos |-> 0]]
             /\ res' = [NoRes EXCEPT !.op = "open", !.m = m, !.f = f, !.h = h,
                                     !.c = dfs_open(n.inode)]
    /\ nops' = nops + 1
    /\ UNCHANGED <<cell, sb, touched, log, call, tally>>

\* close: the file operations define no release
Close(budget, h) ==
    /\ nops < budget
    /\ handle[h].open
    /\ call[h].pc = "idle"
    /\ handle' = [handle EXCEPT ![h] = NoHandle]
    /\ res' = [NoRes EXCEPT !.op = "close", !.m = handle[h].m,
                            !.f = handle[h].f, !.h = h]
    /\ nops' = nops + 1
    /\ UNCHANGED <<cell, sb, touched, log, call, tally>>

\* read(fd, buf, count) at the file position
Read(budget, h, count, bad) ==
    /\ nops < budget
    /\ handle[h].open
    /\ call[h].pc = "idle"
    /\ LET c == handle[h].private_data
           off == handle[h].f_pos
           out == dfs_read_file(cell[c], off, count, bad)
           r == [NoRes EXCEPT !.op = "read", !.m = handle[h].m,
                              !.f = handle[h].f, !.h = h, !.c = c, !.off = off,
                              !.cnt = count, !.bad = bad, !.ret = out.ret,
                              !.data = out.data, !.v0 = cell[c],
                              !.v1 = out.cell,
                              !.first = handle[h].f \notin touched[handle[h].m]]
       IN /\ cell' = [cell EXCEPT ![c] = out.cell]
          /\ handle' = [handle EXCEPT ![h].f_pos = out.f_pos]
          /\ res' = r
          /\ log' = [log EXCEPT ![c] = AppendLog(@, r)]
          /\ touched' = [touched EXCEPT ![handle[h].m] = @ \cup {handle[h].f}]
          /\ tally' = IF off = 0 THEN [tally EXCEPT ![c].reads = @ + 1]
                      ELSE tally
    /\ nops' = nops + 1
    /\ UNCHANGED <<sb, call>>

\* The same call when other calls may run between its steps.  The only
\* accesses to shared memory are atomic_read and atomic_inc; all else is
\* local to the call and to its file position.
\* first step: "v = atomic_read(counter)"
ReadLoad(budget, h, count, bad) ==
    /\ nops < budget
    /\ handle[h].open
    /\ call[h].pc = "idle"
    /\ call' = [call EXCEPT ![h] =
                  [pc |-> "loaded", v |-> cell[handle[h].private_data],
                   count |-> count, bad |-> bad]]
    /\ res' = [NoRes EXCEPT !.op = "load", !.m = handle[h].m,
                            !.f = handle[h].f, !.h = h,
                            !.c = handle[h].private_data,
                            !.off = handle[h].f_pos, !.cnt = count,
                            !.bad = bad, !.v0 = cell[handle[h].private_data]]
    /\ nops' = nops + 1
    /\ UNCHANGED <<cell, sb, handle, touched, log, tally>>

\* second step: the decrement of the copy or atomic_inc, then the
\* encoding, the copy to the caller and the new position
ReadFinish(budget, h) ==
    /\ nops < budget
    /\ handle[h].open
    /\ call[h].pc = "loaded"
    /\ LET c == handle[h].private_data
           off == handle[h].f_pos
           out == dfs_read_steps(call[h].v, cell[c], off, call[h].count,
                                 call[h].bad)
           r == [NoRes EXCEPT !.op = "read", !.m = handle[h].m,
                              !.f = handle[h].f, !.h = h, !.c = c, !.off = off,
                              !.cnt = call[h].count, !.bad = call[h].bad,
                              !.ret = out.ret, !.data = out.data,
                              !.v0 = call[h].v, !.v1 = out.cell,
                              !.first = handle[h].f \notin touched[handle[h].m]]
       IN /\ cell' = [cell EXCEPT ![c] = out.cell]
          /\ handle' = [handle EXCEPT ![h].f_pos = out.f_pos]
          /\ call' = [call EXCEPT ![h] = NoCall]
          /\ res' = r
          /\ log' = [log EXCEPT ![c] = AppendLog(@, r)]
          /\ touched' = [touched EXCEPT ![handle[h].m] = @ \cup {handle[h].f}]
          /\ tally' = IF off = 0 THEN [tally EXCEPT ![c].reads = @ + 1]
                      ELSE tally
    /\ nops' = nops + 1
    /\ UNCHANGED sb

\* write(fd, buf, count) at the file position
Write(budget, h, bytes, bad) ==
    /\ nops < budget
    /\ handle[h].open
    /\ call[h].pc = "idle"
    /\ LET c == handle[h].private_data
           off == handle[h].f_pos
           out == dfs_write_file(cell[c], off, bytes, bad)
           r == [NoRes EXCEPT !.op = "write", !.m = handle[h].m,
                              !.f = handle[h].f, !.h = h, !.c = c, !.off = off,
                              !.cnt = Len(bytes), !.bad = bad, !.ret = out.ret,
                              !.data = IF bad THEN <<>> ELSE bytes,
                              !.v0 = cell[c], !.v1 = out.cell,
                              !.first = handle[h].f \notin touched[handle[h].m]]
       IN /\ cell' = [cell EXCEPT ![c] = out.cell]
          /\ res' = r
          /\ log' = [log EXCEPT ![c] = AppendLog(@, r)]
          /\ touched' = [touched EXCEPT ![handle[h].m] = @ \cup {handle[h].f}]
          /\ tally' = IF out.ret >= 0
                      THEN [tally EXCEPT ![c] = [base |-> out.cell, reads |-> 0]]
                      ELSE tally
    /\ nops' = nops + 1
    /\ UNCHANGED <<sb, handle, call>>

\* Every operation takes the number of operations a run may hold.
\* lifecycle runs
Next ==
    \/ \E fail \in AllocFailures : Mount(MaxOps, fail)
    \/ \E m \in Mounts : Unmount(MaxOps, m)
    \/ \E m \in Mounts, f \in FileNames : Open(MaxOps, m, f)
    \/ \E h \in Handles : Close(MaxOps, h)
    \/ \E h \in Handles, i \in LifeReads : Read(MaxOps, h, i.count, i.bad)
    \/ \E h \in Handles, i \in LifeWrites : Write(MaxOps, h, i.bytes, i.bad)

\* read runs
NextRead ==
    \/ \E fail \in NoAllocFailure : Mount(MaxOps, fail)
    \/ \E m \in Mounts : Unmount(MaxOps, m)
    \/ \E m \in Mounts, f \in FileNames : Open(MaxOps, m, f)
    \/ \E h \in Handles : Close(MaxOps, h)
    \/ \E h \in Handles, i \in ReadReads : Read(MaxOps, h, i.count, i.bad)
    \/ \E h \in Handles, i \in ReadWrites : Write(MaxOps, h, i.bytes, i.bad)

\* round-trip runs
NextTrip ==
    \/ \E fail \in NoAllocFailure : Mount(MaxOps, fail)
    \/ \E m \in Mounts : Unmount(MaxOps, m)
    \/ \E m \in Mounts, f \in FileNames : Open(MaxOps, m, f)
    \/ \E h \in Handles : Close(MaxOps, h)
    \/ \E h \in Handles, i \in TripReads : Read(MaxOps, h, i.count, i.bad)
    \/ \E h \in Handles, i \in TripWrites : Write(MaxOps, h, i.bytes, i.bad)

\* write runs
NextWrite ==
    \/ \E fail \in NoAllocFailure : Mount(MaxWriteOps, fail)
    \/ \E m \in Mounts : Unmount(MaxWriteOps, m)
    \/ \E m \in Mounts, f \in FileNames : Open(MaxWriteOps, m, f)
    \/ \E h \in Handles : Close(MaxWriteOps, h)
    \/ \E h \in Handles, i \in WriteReads : Read(MaxWriteOps, h, i.count, i.bad)
    \/ \E h \in Handles, i \in WriteWrites : Write(MaxWriteOps, h, i.bytes, i.bad)

\* runs with overlapping read calls
NextConc ==
    \/ \E fail \in NoAllocFailure : Mount(MaxConcOps, fail)
    \/ \E m \in Mounts : Unmount(MaxConcOps, m)
    \/ \E m \in Mounts, f \in FileNames : Open(MaxConcOps, m, f)
    \/ \E h \in Handles : Close(MaxConcOps, h)
    \/ \E h \in Handles, i \in ConcReads : ReadLoad(MaxConcOps, h, i.count, i.bad)
    \/ \E h \in Handles : ReadFinish(MaxConcOps, h)
    \/ \E h \in Handles, i \in ConcWrites : Write(MaxConcOps, h, i.bytes, i.bad)

\* runs with reads delivered in chunks
NextChunk ==
    \/ \E fail \in NoAllocFailure : Mount(MaxChunkOps, fail)
    \/ \E m \in Mounts : Unmount(MaxChunkOps, m)
    \/ \E m \in Mounts, f \in FileNames : Open(MaxChunkOps, m, f)
    \/ \E h \in Handles : Close(MaxChunkOps, h)
    \/ \E h \in Handles, i \in ChunkReads : Read(MaxChunkOps, h, i.count, i.bad)
    \/ \E h \in Handles, i \in ChunkWrites : Write(MaxChunkOps, h, i.bytes, i.bad)

Spec == Init /\ [][Next]_vars
SpecChunk == Init /\ [][NextChunk]_vars
SpecConc == Init /\ [][NextConc]_vars
SpecRead == Init /\ [][NextRead]_vars
SpecTrip == Init /\ [][NextTrip]_vars
SpecWrite == Init /\ [][NextWrite]_vars

(* ================================================================== *)
(* Properties                                                         *)
(* ================================================================== *)

(* ------------------------------------------------------------------ *)
(* Decimal texts, defined on the characters (independently of the     *)
(* conversions of the program)                                        *)
(* ------------------------------------------------------------------ *)
AllDigits(s) == \A i \in 1..Len(s) : IsDigit(s[i])

\* s is the decimal text of an integer: an optional minus sign, then
\* digits without a leading zero; "-0" is not one
IsDecimalText(s) ==
    /\ s # <<>>
    /\ LET neg == Head(s) = "-"
           digs == IF neg THEN Tail(s) ELSE s
       IN /\ digs # <<>>
          /\ AllDigits(digs)
          /\ Len(digs) > 1 => Head(digs) # "0"
          /\ neg => digs # <<"0">>

\* a <= b for digit strings of the same length
RECURSIVE DigitsLE(_, _)
DigitsLE(a, b) ==
    IF a = <<>> THEN TRUE
    ELSE IF DigitVal(Head(a)) < DigitVal(Head(b)) THEN TRUE
    ELSE IF DigitVal(Head(a)) > DigitVal(Head(b)) THEN FALSE
    ELSE DigitsLE(Tail(a), Tail(b))

\* the decimal text s denotes an integer of -2^31 .. 2^31 - 1
DenotesInt32(s) ==
    /\ IsDecimalText(s)
    /\ LET neg == Head(s) = "-"
           digs == IF neg THEN Tail(s) ELSE s
       IN \/ Len(digs) < 10
          \/ /\ Len(digs) = 10
             /\ DigitsLE(digs, IF neg THEN TextIntMaxPlus1 ELSE TextIntMax)

\* minus the number a digit string denotes
RECURSIVE NegAcc(_, _)
NegAcc(digs, acc) ==
    IF digs = <<>> THEN acc
    ELSE NegAcc(Tail(digs), acc * 10 - DigitVal(Head(digs)))

\* the integer a decimal text of the int range denotes
TextValue(s) ==
    IF Head(s) = "-" THEN NegAcc(Tail(s), 0) ELSE -NegAcc(s, 0)

\* data is the decimal text of v followed by a newline
IsLineOf(data, v) ==
    /\ Len(data) >= 2
    /\ data[Len(data)] = "\n"
    /\ LET t == SubSeq(data, 1, Len(data) - 1)
       IN DenotesInt32(t) /\ TextValue(t) = v

\* the digit string of n + 1, for the digit string of n >= 0
RECURSIVE IncDigits(_)
IncDigits(d) ==
    IF d = <<>> THEN <<"1">>
    ELSE LET front == SubSeq(d, 1, Len(d) - 1)
             last == DigitVal(d[Len(d)])
         IN IF last < 9 THEN front \o <<DigitChars[last + 2]>>
            ELSE IncDigits(front) \o <<"0">>

\* the digit string of n - 1 (possibly with a leading zero), for n >= 1
RECURSIVE DecDigits(_)
DecDigits(d) ==
    LET front == SubSeq(d, 1, Len(d) - 1)
        last == DigitVal(d[Len(d)])
    IN IF last > 0 THEN front \o <<DigitChars[last]>>
       ELSE DecDigits(front) \o <<"9">>

\* the decimal text of n + 1 in the integers, for the decimal text of n
TextSucc(s) ==
    IF Head(s) = "-" THEN
        LET d == DecDigits(Tail(s))
            t == IF Len(d) > 1 /\ Head(d) = "0" THEN Tail(d) ELSE d
        IN IF t = <<"0">> THEN t ELSE <<"-">> \o t
    ELSE IncDigits(s)

\* y = x + k in the integers (k > 0), for ints x and y
IsPlus(x, k, y) == y > x /\ y - k = x

\* a read at offset 0 that delivered the whole text (it ends in the newline)
WholeRead(r) ==
    r.op = "read" /\ r.off = 0 /\ r.ret > 0 /\ r.data[Len(r.data)] = "\n"

\* the pairs and triples of consecutive operations on one cell that the
\* history holds (no other operation on that cell lies between them)
LogPairs ==
    UNION {{<<log[c][i], log[c][i + 1]>> : i \in 1..(Len(log[c]) - 1)} :
           c \in CellNames}
LogTriples ==
    UNION {{<<log[c][i], log[c][i + 1], log[c][i + 2]>> :
            i \in 1..(Len(log[c]) - 2)} : c \in CellNames}

(* ------------------------------------------------------------------ *)
(* C1: the first read of /counter at offset 0 through a fresh mount   *)
(* (no read or write was made through that mount since it was         *)
(* mounted) returns "0\n" and leaves the cell at 1.                   *)
(* ------------------------------------------------------------------ *)
C1_FirstReadOfFreshMount ==
    (WholeRead(res) /\ res.f = "counter" /\ res.first)
        => (res.data = <<"0", "\n">> /\ res.v1 = 1)

(* ------------------------------------------------------------------ *)
(* C2 as stated: two whole reads at offset 0 of one cell, one after   *)
(* the other, starting from N >= 0: the first returns the text of N,  *)
(* the second the text of N + 1, and the cell then holds N + 2 (in    *)
(* the integers).                                                     *)
(* ------------------------------------------------------------------ *)
C2_TwoReadsExact ==
    \A p \in LogPairs :
        (WholeRead(p[1]) /\ WholeRead(p[2]) /\ p[1].v0 >= 0)
            => /\ IsLineOf(p[1].data, p[1].v0)
               /\ p[2].data = TextSucc(PosDigits(p[1].v0)) \o <<"\n">>
               /\ IsPlus(p[1].v0, 2, p[2].v1)

(* C2 as amended: the same with the successor taken in the 32-bit     *)
(* cell: N + 1 and N + 2 wrap around from 2147483647 to -2147483648.  *)
C2_TwoReadsWrapping ==
    \A p \in LogPairs :
        (WholeRead(p[1]) /\ WholeRead(p[2]) /\ p[1].v0 >= 0)
            => /\ IsLineOf(p[1].data, p[1].v0)
               /\ IF p[1].v0 < MaxInt
                  THEN /\ IsLineOf(p[2].data, p[1].v0 + 1)
                       /\ IF p[1].v0 + 1 < MaxInt
                          THEN p[2].v1 = p[1].v0 + 2
                          ELSE p[2].v1 = MinInt
                  ELSE /\ IsLineOf(p[2].data, MinInt)
                       /\ p[2].v1 = MinInt + 1

\* two whole reads in a row across the wrap-around of the cell
C2_Witness ==
    \E p \in LogPairs :
        /\ WholeRead(p[1]) /\ WholeRead(p[2])
        /\ p[1].v0 = MaxInt /\ p[2].v0 = MinInt /\ p[2].v1 = MinInt + 1

(* ------------------------------------------------------------------ *)
(* C3 as stated: a read at offset 0 that returns k bytes of the text  *)
(* of v (0 < k < its length), followed on the same cell by a read at  *)
(* offset k that asks for at least the rest, returns exactly the rest *)
(* of the text of v, and the cell is v + 1 (in the integers) after    *)
(* both.                                                              *)
(* ------------------------------------------------------------------ *)
IsChunkPair(p) ==
    /\ p[1].op = "read" /\ p[1].off = 0
    /\ p[1].ret > 0 /\ p[1].ret < Len(FormatInt(p[1].v0))
    /\ p[2].op = "read" /\ p[2].off = p[1].ret
    /\ p[2].ret >= 0
    /\ p[2].cnt >= Len(FormatInt(p[1].v0)) - p[1].ret

C3_ContinuationExact ==
    \A p \in LogPairs :
        IsChunkPair(p)
            => /\ IsLineOf(p[1].data \o p[2].data, p[1].v0)
               /\ IsPlus(p[1].v0, 1, p[2].v1)

(* C3 as amended: the same, the cell being the 32-bit successor of v  *)
(* (v + 1, or -2147483648 when v = 2147483647).                       *)
C3_ContinuationWrapping ==
    \A p \in LogPairs :
        IsChunkPair(p)
            => /\ IsLineOf(p[1].data \o p[2].data, p[1].v0)
               /\ p[2].v1 = (IF p[1].v0 = MaxInt THEN MinInt ELSE p[1].v0 + 1)
               /\ p[2].v1 = p[1].v1

\* a chunked read of a text whose rest differs from that of the next value
C3_Witness ==
    \E p \in LogPairs :
        /\ IsChunkPair(p)
        /\ p[1].v0 = MaxInt
        /\ Len(p[2].data) = 10

(* ------------------------------------------------------------------ *)
(* C4 as stated: writing the decimal text of any integer n (fewer     *)
(* than 20 bytes) at offset 0, then reading at offset 0, returns that *)
(* text and a newline; the next read at offset 0 returns n + 1.       *)
(* ------------------------------------------------------------------ *)
IsRoundTrip(t) ==
    /\ t[1].op = "write" /\ t[1].off = 0 /\ t[1].ret = t[1].cnt
    /\ ~t[1].bad /\ t[1].cnt < TMPSIZE
    /\ IsDecimalText(t[1].data)
    /\ WholeRead(t[2]) /\ WholeRead(t[3])

C4_RoundTripAnyInteger ==
    \A t \in LogTriples :
        IsRoundTrip(t)
            => /\ t[2].data = t[1].data \o <<"\n">>
               /\ t[3].data = TextSucc(t[1].data) \o <<"\n">>

(* C4 as amended: the same for every n of the int range,              *)
(* -2147483648 <= n <= 2147483647; the next read returns n + 1, and   *)
(* -2147483648 after n = 2147483647.                                  *)
C4_RoundTripInt32 ==
    \A t \in LogTriples :
        (IsRoundTrip(t) /\ DenotesInt32(t[1].data))
            => /\ t[2].data = t[1].data \o <<"\n">>
               /\ IF t[1].data = TextIntMax
                  THEN t[3].data = <<"-">> \o TextIntMaxPlus1 \o <<"\n">>
                  ELSE t[3].data = TextSucc(t[1].data) \o <<"\n">>

\* a round trip of a negative number
C4_Witness ==
    \E t \in LogTriples :
        /\ IsRoundTrip(t)
        /\ t[1].data = <<"-", "7">>
        /\ t[3].data = <<"-", "6", "\n">>

(* ------------------------------------------------------------------ *)
(* C5: a write at a nonzero offset fails with -EINVAL whatever its    *)
(* input, and no cell changes.                                        *)
(* ------------------------------------------------------------------ *)
C5_WriteAtNonzeroOffset ==
    [][(res'.op = "write" /\ res'.off # 0)
          => (res'.ret = -EINVAL /\ cell' = cell)]_vars

\* a write of an otherwise acceptable input, made at a nonzero offset
C5_Witness ==
    /\ res.op = "write" /\ res.off # 0
    /\ ~res.bad /\ res.cnt = 2 /\ res.ret = -EINVAL

(* ------------------------------------------------------------------ *)
(* C6: a write at offset 0 of 20 bytes or more fails with -EINVAL and *)
(* no cell changes; a write at offset 0 of fewer than 20 bytes (0     *)
(* included) is not rejected for its length: it returns its length,   *)
(* or -EFAULT when the copy from the caller faults.                   *)
(* ------------------------------------------------------------------ *)
C6_WriteLengthLimit ==
    [][(res'.op = "write" /\ res'.off = 0)
          => IF res'.cnt >= TMPSIZE
             THEN res'.ret = -EINVAL /\ cell' = cell
             ELSE \/ res'.ret = res'.cnt
                  \/ res'.bad /\ res'.cnt > 0 /\ res'.ret = -EFAULT]_vars

\* a rejected write of 20 bytes followed by an accepted write of 19
C6_Witness ==
    \E p \in LogPairs :
        /\ p[1].op = "write" /\ p[1].off = 0 /\ p[1].cnt = TMPSIZE
        /\ p[1].ret = -EINVAL /\ p[1].v1 = p[1].v0
        /\ p[2].op = "write" /\ p[2].off = 0 /\ p[2].cnt = TMPSIZE - 1
        /\ p[2].ret = TMPSIZE - 1

(* ------------------------------------------------------------------ *)
(* C7: within one mount, a read or write through one of the two files *)
(* leaves the cell of the other file unchanged.                       *)
(* ------------------------------------------------------------------ *)
\* the cells of the regular files of mount m other than the file `name`
OtherCells(m, name) ==
    {n.inode.i_private : n \in {x \in sb[m].tree :
                                  x.inode.kind = "reg" /\ x.name # name}}

C7_FilesAreIndependent ==
    [][(res'.op \in {"read", "write"})
          => \A c \in OtherCells(res'.m, res'.f) : cell'[c] = cell[c]]_vars

\* /counter was read once and /subdir/subcounter of the same mount was
\* then written: the two cells hold different values
C7_Witness ==
    /\ res.op = "write" /\ res.f = "subcounter" /\ res.ret > 0
    /\ Lookup(res.m, "counter") # {}
    /\ cell["counter"] = 1 /\ cell["subcounter"] = 42

(* ------------------------------------------------------------------ *)
(* C8: a mount during which an allocation fails returns an error and  *)
(* publishes nothing; every mount that succeeded exposes the whole    *)
(* tree.                                                              *)
(* ------------------------------------------------------------------ *)
WholeTree == {"/", "counter", "subdir", "subcounter"}

C8_MountAllOrNothing ==
    /\ (res.op = "mount" /\ res.fail # "none")
          => (res.ret < 0 /\ ~res.crash /\ sb[res.m] = NoSb)
    /\ \A m \in Mounts :
          sb[m].state = "mounted"
              => {n.name : n \in sb[m].tree} = WholeTree

(* ------------------------------------------------------------------ *)
(* C9: a read or write that fails changes nothing another handle can  *)
(* observe: every cell and every file position is as before the call. *)
(* ------------------------------------------------------------------ *)
C9_FailedCallChangesNothing ==
    [][(res'.op \in {"read", "write"} /\ res'.ret < 0)
          => (cell' = cell /\ handle' = handle)]_vars

(* ------------------------------------------------------------------ *)
(* C10: the cells of one mount are its own: a read or write through a *)
(* second mount, and the mounting of a second mount, leave the value  *)
(* of every file of the first mount unchanged.                        *)
(* ------------------------------------------------------------------ *)
\* the cells bound to the regular files of mount m
CellsOf(m) ==
    {n.inode.i_private : n \in {x \in sb[m].tree : x.inode.kind = "reg"}}

C10_MountsOwnTheirCells ==
    [][\A m \in Mounts :
          (/\ sb[m].state = "mounted"
           /\ res'.op \in {"read", "write", "mount"}
           /\ res'.m # m)
              => \A c \in CellsOf(m) : cell'[c] = cell[c]]_vars

(* ------------------------------------------------------------------ *)
(* C11: two read calls at offset 0 on the same cell, with no write to *)
(* that cell between them, never deliver the same value.              *)
(* ------------------------------------------------------------------ *)
\* the history of cell c holds only read calls strictly between its
\* entries i and j (no write and no reset of the cell)
OnlyReadsBetween(c, i, j) ==
    \A k \in (i + 1)..(j - 1) : log[c][k].op = "read"

C11_ReadsAtZeroServeDistinctValues ==
    \A c \in CellNames : \A i, j \in 1..Len(log[c]) :
        (/\ i < j
         /\ WholeRead(log[c][i]) /\ WholeRead(log[c][j])
         /\ OnlyReadsBetween(c, i, j))
            => log[c][i].data # log[c][j].data

(* ------------------------------------------------------------------ *)
(* C12: no increment is lost: whenever no read call is in flight, a   *)
(* cell holds the value last stored in it plus the number of read     *)
(* calls at offset 0 completed on it since, however they overlapped.  *)
(* ------------------------------------------------------------------ *)
Quiescent == \A h \in Handles : call[h].pc = "idle"

IsChunkedRead(c, i, j) ==
    LET a == log[c][i]
        b == log[c][j]
    IN /\ i < j
       /\ a.op = "read" /\ a.off = 0
       /\ a.ret > 0 /\ a.ret < Len(FormatInt(a.v0))
       /\ b.op = "read" /\ b.h = a.h /\ b.off = a.ret /\ b.ret >= 0
       /\ b.cnt >= Len(FormatInt(a.v0)) - a.ret
       /\ \A k \in (i + 1)..(j - 1) :
             /\ log[c][k].op = "read" /\ log[c][k].off = 0
             /\ log[c][k].h # a.h

C13_ChunksReconstructCapturedValue ==
    \A c \in CellNames : \A i, j \in 1..Len(log[c]) :
        IsChunkedRead(c, i, j)
            => IsLineOf(log[c][i].data \o log[c][j].data, log[c][i].v0)

(* ------------------------------------------------------------------ *)
(* C14: a read call whose copy succeeds, for the length L of the text *)
(* of its logical value (the counter at offset 0, the counter minus   *)
(* one at an offset above 0): at an offset at or beyond L it returns  *)
(* no byte; otherwise it returns min(requested length, L - offset)    *)
(* bytes, the bytes of the text from that offset; the file position   *)
(* advances by the number of bytes returned.                          *)
(* ------------------------------------------------------------------ *)
LogicalValue(r) == IF r.off > 0 THEN Dec32(r.v0) ELSE r.v0

C14_ReadReturnsClampedSlice ==
    (res.op = "read" /\ res.ret >= 0) =>
        LET text == FormatInt(LogicalValue(res))
            L == Len(text)
        IN /\ res.off >= L => (res.ret = 0 /\ res.data = <<>>)
           /\ res.off < L =>
                 /\ res.ret = Min(res.cnt, L - res.off)
                 /\ res.data = SubSeq(text, res.off + 1, res.off + res.ret)
           /\ handle[res.h].f_pos = res.off + res.ret

\* a read at a position beyond the end of the text: the position was
\* reached by reading a longer text before the counter was set back
C14_Witness ==
    /\ res.op = "read"
    /\ res.off > Len(FormatInt(LogicalValue(res)))
    /\ res.ret = 0 /\ res.data = <<>>
    /\ handle[res.h].f_pos = res.off

(* ------------------------------------------------------------------ *)
(* C15: an accepted write returns the full input length and stores    *)
(* the integer denoted by the longest leading signed-decimal prefix   *)
(* of the input (an optional minus sign, then digits), 0 when there   *)
(* is no digit there; the previous value has no influence.            *)
(* ------------------------------------------------------------------ *)
\* the longest prefix of s made of digits
RECURSIVE LeadingDigits(_)
LeadingDigits(s) ==
    IF s = <<>> \/ ~IsDigit(Head(s)) THEN <<>>
    ELSE <<Head(s)>> \o LeadingDigits(Tail(s))

RECURSIVE StripZeros(_)
StripZeros(d) ==
    IF d # <<>> /\ Head(d) = "0" THEN StripZeros(Tail(d)) ELSE d

\* the decimal text of the number the signed-decimal prefix of s denotes
\* ("0" when the prefix has no digit or denotes zero)
PrefixText(s) ==
    LET neg == s # <<>> /\ Head(s) = "-"
        digs == StripZeros(LeadingDigits(IF neg THEN Tail(s) ELSE s))
    IN IF digs = <<>> THEN <<"0">>
       ELSE IF neg THEN <<"-">> \o digs ELSE digs

AcceptedWrite(r) == r.op = "write" /\ r.ret >= 0

\* as claimed: whatever the prefix, the cell holds the integer it denotes
C15_WriteStoresPrefixInteger ==
    AcceptedWrite(res) =>
        /\ res.ret = res.cnt
        /\ DenotesInt32(PrefixText(res.data))
        /\ res.v1 = TextValue(PrefixText(res.data))
        /\ cell[res.c] = res.v1

\* the cell holds the integer of the prefix when that integer is an int;
\* of a larger one it keeps the low 32 bits (19 nines leave -1981284353)
C15_WriteStoresPrefixInt32 ==
    AcceptedWrite(res) =>
        /\ res.ret = res.cnt
        /\ DenotesInt32(PrefixText(res.data))
              => res.v1 = TextValue(PrefixText(res.data))
        /\ res.data = Nines19 => res.v1 = -1981284353
        /\ cell[res.c] = res.v1

\* "-7x" was written over a cell that held something else: the cell is -7
C15_Witness ==
    /\ AcceptedWrite(res)
    /\ res.data = <<"-", "7", "x">> /\ res.ret = 3
    /\ res.v0 # 0 /\ res.v0 # -7
    /\ cell[res.c] = -7

(* ------------------------------------------------------------------ *)
(* C16: after a mount in which no allocation fails the tree is the    *)
(* root directory (0755), the regular file "counter" (0644) with a    *)
(* cell of value 0, the directory "subdir" (0755) and under it the    *)
(* regular file "subcounter" (0644) with a different cell of value 0; *)
(* a directory has no cell, a regular file has exactly one, names are *)
(* unique among siblings, and no read or write changes a tree.        *)
(* ------------------------------------------------------------------ *)
\* name, parent, kind and mode of every node
Shape(tree) ==
    {<<n.name, n.parent, n.inode.kind, n.inode.mode>> : n \in tree}

FullShape ==
    {<<"/", "", "dir", Mode0755>>,
     <<"counter", "/", "reg", Mode0644>>,
     <<"subdir", "/", "dir", Mode0755>>,
     <<"subcounter", "subdir", "reg", Mode0644>>}

SiblingsUnique(tree) ==
    \A a, b \in tree : (a.parent = b.parent /\ a.name = b.name) => a = b

CellOwnership(tree) ==
    /\ \A n \in tree : n.inode.kind = "dir" => n.inode.i_private = ""
    /\ \A n \in tree : n.inode.kind = "reg" => n.inode.i_private \in CellNames
    /\ \A a, b \in tree :
          (a.inode.kind = "reg" /\ b.inode.kind = "reg" /\ a # b)
              => a.inode.i_private # b.inode.i_private

C16_TreeAfterMount ==
    [][/\ (res'.op = "mount" /\ res'.fail = "none") =>
              /\ res'.ret = 0
              /\ sb'[res'.m].state = "mounted"
              /\ Shape(sb'[res'.m].tree) = FullShape
              /\ Cardinality(sb'[res'.m].tree) = 4
              /\ \A n \in sb'[res'.m].tree :
                    n.inode.kind = "reg" => cell'[n.inode.i_private] = 0
       /\ \A m \in Mounts :
              SiblingsUnique(sb'[m].tree) /\ CellOwnership(sb'[m].tree)
       /\ res'.op \in {"read", "write"} => sb' = sb]_vars

\* the whole tree of a mount, after /subdir/subcounter was read and then
\* written through it
C16_Witness ==
    /\ res.op = "write" /\ res.f = "subcounter" /\ res.ret > 0
    /\ sb[res.m].state = "mounted"
    /\ Shape(sb[res.m].tree) = FullShape
    /\ \E p \in LogPairs : p[1].op = "read" /\ p[1].f = "subcounter"
                           /\ p[1].m = res.m /\ p[2] = res

(* ------------------------------------------------------------------ *)
(* C17: for every value a cell holds (the most negative int and the   *)
(* values left by the wrap of the increment included) and for that    *)
(* value minus one, which a continuation encodes, the text written by *)
(* snprintf (decimal digits and a newline) is at most TMPSIZE - 1     *)
(* bytes long and is stored whole, newline included.                  *)
(* ------------------------------------------------------------------ *)
FitsBuffer(v) ==
    LET s == snprintf(TMPSIZE, v)
    IN /\ s.len <= TMPSIZE - 1
       /\ Len(s.buf) = s.len
       /\ IsLineOf(s.buf, v)

C17_SerializationFits ==
    \A c \in CellNames : FitsBuffer(cell[c]) /\ FitsBuffer(Dec32(cell[c]))

\* the longest text, "-2147483648\n", was read whole from a cell that
\* reached the most negative value by the wrap of the increment
C17_Witness ==
    /\ WholeRead(res) /\ res.v0 = MinInt /\ res.ret = 12
    /\ \E p \in LogPairs : p[1].op = "read" /\ p[1].v0 = MaxInt /\ p[2] = res

(* ------------------------------------------------------------------ *)
(* C18: a write never moves the file position and a read moves it     *)
(* forward by the bytes it returned; so every well-formed write       *)
(* through a handle still at position 0 succeeds, however many came   *)
(* before it, and once a read through the handle has returned a byte  *)
(* its position stays above 0 and every later write through it fails  *)
(* with EINVAL and leaves the cell unchanged.                         *)
(* ------------------------------------------------------------------ *)
C18_OffsetDiscipline ==
    [][/\ res'.op = "write" =>
              handle'[res'.h].f_pos = handle[res'.h].f_pos
       /\ (res'.op = "read" /\ res'.ret >= 0) =>
              handle'[res'.h].f_pos = handle[res'.h].f_pos + res'.ret
       /\ (/\ res'.op = "write" /\ handle[res'.h].f_pos = 0
           /\ res'.cnt < TMPSIZE /\ ~(res'.bad /\ res'.cnt > 0)) =>
              res'.ret = res'.cnt
       /\ \A h \in Handles :
              (/\ handle[h].open /\ handle[h].f_pos > 0
               /\ ~(res'.op = "close" /\ res'.h = h)) =>
                  handle'[h].open /\ handle'[h].f_pos >= handle[h].f_pos
       /\ (res'.op = "write" /\ handle[res'.h].f_pos > 0) =>
              (res'.ret = -EINVAL /\ cell' = cell)]_vars

\* through one handle: a write was accepted, a read returned bytes, and
\* the next write, well-formed, was refused and left the cell as it was
C18_Witness ==
    \E t \in LogTriples :
        /\ t[1].op = "write" /\ t[1].ret = t[1].cnt /\ t[1].off = 0
        /\ t[2].op = "read" /\ t[2].h = t[1].h /\ t[2].ret > 0
        /\ t[3] = res /\ res.op = "write" /\ res.h = t[1].h
        /\ res.cnt < TMPSIZE /\ ~res.bad
        /\ res.ret = -EINVAL /\ res.off = t[2].ret
        /\ cell[res.c] = t[2].v1
        /\ handle[res.h].f_pos = res.off

(* ------------------------------------------------------------------ *)
(* C19: the cell of a file of a mounted file system changes only by a *)
(* read call at offset 0 on it (to the old value plus one) and by an  *)
(* accepted write on it (to the parsed value); nothing else, and no   *)
(* read at an offset above 0, changes any cell.                       *)
(* ------------------------------------------------------------------ *)
C19_OnlyReadAtZeroAndWriteChangeCells ==
    [][\A m \in Mounts : \A c \in CellsOf(m) :
          (sb[m].state = "mounted" /\ cell'[c] # cell[c]) =>
              \/ /\ res'.op = "read" /\ res'.c = c /\ res'.off = 0
                 /\ IsPlus(cell[c], 1, cell'[c])
              \/ /\ res'.op = "write" /\ res'.c = c /\ res'.ret = res'.cnt
                 /\ DenotesInt32(PrefixText(res'.data))
                 /\ cell'[c] = TextValue(PrefixText(res'.data))]_vars

====
